---------------------------- MODULE Spec2Model ----------------------------
(***************************************************************************)
(* A model of the proofreader pipeline of src/proofreader/src/diff.ts:     *)
(* splitIntoParagraphs, findEndPosition, calculateRanges,                  *)
(* processParagraphs, correctTextStream, callOpenAIAPI and proofread.      *)
(*                                                                         *)
(* A JavaScript string is a sequence of one-character strings.  Line and   *)
(* column indices keep the 0-based values of the source; a sequence is     *)
(* read at index + 1.                                                      *)
(***************************************************************************)
EXTENDS Integers, Sequences, FiniteSets, TLC

VARIABLES
    call,            \* pure-function specifications: the arguments of the call
    ret,             \* <<>> before the call returns, <<value>> after
    text,            \* proofread: the document text
    maxConcurrency,  \* TextProcessor.maxConcurrency
    segPc,           \* processParagraphs: "idle", "awaiting", "returned", "failed"
    paragraphs,      \* processParagraphs: the paragraphs of text
    segI,            \* processParagraphs: the loop variable i
    segPending,      \* segmentation calls dispatched and not yet resolved
    segBatch,        \* results of the resolved tasks of the current batch, by index
    segResults,      \* processParagraphs: the array results
    segArrival,      \* history: the current batch's paragraph indices in the order their calls resolved
    segOutcome,      \* history: how the segmentation call of each paragraph ended
    sentences,       \* the argument of correctTextStream
    pc,              \* correctTextStream: "idle", "start", "awaiting", "yielded", "done", "failed", "closed"
    i,               \* correctTextStream: the loop variable i
    pending,         \* correction calls dispatched and not yet resolved
    batchResults,    \* records of the resolved tasks of the current batch, by index
    yielded,         \* number of records of the current batch already yielded
    emitted,         \* the CorrectionResults the consumer has received, in order
    emitLog,         \* history: the task index of each emitted record
    response,        \* history: what callOpenAIAPI returned for each task
    outcome,         \* history: how the external call of each task ended
    arrival,         \* history: the current batch's task indices in the order their calls resolved
    ext              \* the extension's command: where it stands, its answers, what it touched

vars == <<call, ret, text, maxConcurrency, segPc, paragraphs, segI, segPending,
          segBatch, segResults, segArrival, segOutcome,
          sentences, pc, i, pending, batchResults,
          yielded, emitted, emitLog, response, outcome, arrival, ext>>

pureVars == <<call, ret, ext>>
segVars == <<text, segPc, paragraphs, segI, segPending, segBatch, segResults,
             segArrival, segOutcome>>
streamVars == <<sentences, pc, i, pending, batchResults, yielded, emitted,
                emitLog, response, outcome, arrival>>

----------------------------------------------------------------------------
(* Bounds of the model *)

MaxTextLen == 4
MaxSentenceLen == 2
MaxSentences == 3
MaxConcurrencyBound == 2
MaxSections == 3
MaxProofreadSections == 2

(* new TextProcessor(apiKey): maxConcurrency defaults to 10 *)
DefaultMaxConcurrency == 10

----------------------------------------------------------------------------
(* Strings *)

Min(a, b) == IF a <= b THEN a ELSE b
Max(a, b) == IF a >= b THEN a ELSE b

StringsUpTo(A, n) == UNION {[1..k -> A] : k \in 0..n}

(* /\s/ on the characters of the model's alphabets *)
IsWhitespace(c) == c \in {" ", "\n", "\t"}

(* Array.prototype.slice(from, to) with 0-based, end-exclusive indices *)
Slice(s, from, to) ==
    LET lo == Min(Max(from, 0), Len(s))
        hi == Min(Max(to, lo), Len(s))
    IN  [k \in 1..(hi - lo) |-> s[lo + k]]

(* sentence.replace(/\s+/g, '') *)
RECURSIVE RemoveWhitespace(_)
RemoveWhitespace(s) ==
    IF s = <<>> THEN <<>>
    ELSE IF IsWhitespace(Head(s)) THEN RemoveWhitespace(Tail(s))
    ELSE <<Head(s)>> \o RemoveWhitespace(Tail(s))

RECURSIVE TrimStart(_)
TrimStart(s) ==
    IF s # <<>> /\ IsWhitespace(Head(s)) THEN TrimStart(Tail(s)) ELSE s

RECURSIVE TrimEnd(_)
TrimEnd(s) ==
    IF s # <<>> /\ IsWhitespace(s[Len(s)]) THEN TrimEnd(SubSeq(s, 1, Len(s) - 1)) ELSE s

(* String.prototype.trim() *)
Trim(s) == TrimEnd(TrimStart(s))

(* text.split('\n') read from offset k on, with the line begun so far *)
RECURSIVE SplitFrom(_, _, _)
SplitFrom(s, k, line) ==
    IF k > Len(s) THEN <<line>>
    ELSE IF s[k] = "\n" THEN <<line>> \o SplitFrom(s, k + 1, <<>>)
    ELSE SplitFrom(s, k + 1, Append(line, s[k]))

(* text.split('\n'): always at least one line *)
SplitLines(s) == SplitFrom(s, 1, <<>>)

(* line.startsWith('#') *)
StartsWithHash(line) == line # <<>> /\ line[1] = "#"

----------------------------------------------------------------------------
(* splitIntoParagraphs *)

(* the final test made on the trimmed buffer *)
FlushParagraph_Trimmed(ps, cur, startLine) ==
    IF Trim(cur) # <<>> THEN Append(ps, [text |-> Trim(cur), startLine |-> startLine]) ELSE ps

(* the final if (currentParagraph) of splitIntoParagraphs *)
FlushParagraph(ps, cur, startLine) ==
    IF cur # <<>> THEN Append(ps, [text |-> Trim(cur), startLine |-> startLine]) ELSE ps

(* the loop with the new paragraph starting at the line after the heading *)
RECURSIVE SplitLoop_NextLine(_, _, _, _, _)
SplitLoop_NextLine(lines, k, ps, cur, startLine) ==
    IF k >= Len(lines) THEN FlushParagraph(ps, cur, startLine)
    ELSE LET line == lines[k + 1]
         IN  IF StartsWithHash(line) /\ cur # <<>>
             THEN SplitLoop_NextLine(lines, k + 1,
                            Append(ps, [text |-> Trim(cur), startLine |-> startLine]),
                            line \o <<"\n">>, k + 1)
             ELSE SplitLoop_NextLine(lines, k + 1, ps, cur \o line \o <<"\n">>, startLine)

(* the for loop of splitIntoParagraphs, from line index k on *)
RECURSIVE SplitLoop(_, _, _, _, _)
SplitLoop(lines, k, ps, cur, startLine) ==
    IF k >= Len(lines) THEN FlushParagraph(ps, cur, startLine)
    ELSE LET line == lines[k + 1]
         IN  IF StartsWithHash(line) /\ cur # <<>>
             THEN SplitLoop(lines, k + 1,
                            Append(ps, [text |-> Trim(cur), startLine |-> startLine]),
                            line \o <<"\n">>, k)
             ELSE SplitLoop(lines, k + 1, ps, cur \o line \o <<"\n">>, startLine)

splitIntoParagraphs(t) == SplitLoop(SplitLines(t), 0, <<>>, <<>>, 0)

----------------------------------------------------------------------------
(* findEndPosition *)

Pos(l, c) == [lineIndex |-> l, columnIndex |-> c]

NotFound == [success |-> FALSE]

(* the loops without the reset of matchCount on a mismatch *)
RECURSIVE FindLoop_NoReset(_, _, _, _, _, _)
FindLoop_NoReset(lines, clean, line, col, matchCount, matchStart) ==
    IF line >= Len(lines) THEN NotFound
    ELSE IF col >= Len(lines[line + 1])
    THEN FindLoop_NoReset(lines, clean, line + 1, 0, matchCount, matchStart)
    ELSE LET c == lines[line + 1][col + 1]
         IN  IF IsWhitespace(c)
             THEN FindLoop_NoReset(lines, clean, line, col + 1, matchCount, matchStart)
             ELSE IF matchCount < Len(clean) /\ c = clean[matchCount + 1]
             THEN LET start == IF matchCount = 0 THEN Pos(line, col) ELSE matchStart
                  IN  IF matchCount + 1 = Len(clean)
                      THEN [success |-> TRUE, startPosition |-> start,
                            endPosition |-> Pos(line, col + 1)]
                      ELSE FindLoop_NoReset(lines, clean, line, col + 1, matchCount + 1, start)
             ELSE FindLoop_NoReset(lines, clean, line, col + 1, matchCount, matchStart)

(* the two nested while loops of findEndPosition, as one loop over
   (currentLine, currentColumn, matchCount, matchStartPosition) *)
RECURSIVE FindLoop(_, _, _, _, _, _)
FindLoop(lines, clean, line, col, matchCount, matchStart) ==
    IF line >= Len(lines) THEN NotFound
    ELSE IF col >= Len(lines[line + 1])
    THEN FindLoop(lines, clean, line + 1, 0, matchCount, matchStart)
    ELSE LET c == lines[line + 1][col + 1]
         IN  IF IsWhitespace(c)
             THEN FindLoop(lines, clean, line, col + 1, matchCount, matchStart)
             ELSE IF matchCount < Len(clean) /\ c = clean[matchCount + 1]
             THEN LET start == IF matchCount = 0 THEN Pos(line, col) ELSE matchStart
                  IN  IF matchCount + 1 = Len(clean)
                      THEN [success |-> TRUE, startPosition |-> start,
                            endPosition |-> Pos(line, col + 1)]
                      ELSE FindLoop(lines, clean, line, col + 1, matchCount + 1, start)
             ELSE FindLoop(lines, clean, line, col + 1, 0, Pos(0, 0))

findEndPosition(sentence, originalText, startPosition) ==
    FindLoop(SplitLines(originalText), RemoveWhitespace(sentence),
             startPosition.lineIndex, startPosition.columnIndex, 0, Pos(0, 0))

----------------------------------------------------------------------------
(* Promise.all over the tasks of one batch *)

(* a slice that takes one task too many *)
BatchSlice_OneMore(n, from, mc) == Slice([k \in 1..n |-> k - 1], from, from + mc + 1)

(* tasks.slice(from, from + mc) of n tasks, as 0-based task indices in order *)
BatchSlice(n, from, mc) == Slice([k \in 1..n |-> k - 1], from, from + mc)

SeqRange(s) == {s[k] : k \in 1..Len(s)}

(* fulfilled as soon as one promise of the batch is, as Promise.race is *)
PromiseAllFulfilled_Any(batch, results) == \E k \in SeqRange(batch) : k \in DOMAIN results

(* Promise.all is fulfilled once every promise of the batch is fulfilled *)
PromiseAllFulfilled(batch, results) == \A k \in SeqRange(batch) : k \in DOMAIN results

(* the values collected in the order of their arrival *)
PromiseAllOrder_Arrival(batch, results, arrivalOrder) ==
    LET Settled(k) == k \in DOMAIN results /\ k \in SeqRange(batch)
    IN  SelectSeq(arrivalOrder, Settled)

(* the order of the array Promise.all resolves to: the tasks of the batch in
   the order of the batch, whatever the order of their arrival *)
PromiseAllOrder(batch, results, arrivalOrder) ==
    LET Settled(k) == k \in DOMAIN results
    IN  SelectSeq(batch, Settled)

----------------------------------------------------------------------------
(* callOpenAIAPI and the task of correctTextStream *)

NoThrow(v) == [threw |-> FALSE, value |-> v]
Throw == [threw |-> TRUE]

(* How the external correction call of a task can end: the request rejects, the
   message has no content, the content is not JSON, or the content is the JSON
   of an {error, correctedSentence} object. *)
CorrectionFailures == {[kind |-> "rejected"], [kind |-> "noContent"], [kind |-> "unparseable"]}

CorrectionResponses ==
    {[kind |-> "json", value |-> [error |-> e, correctedSentence |-> c]] :
        e \in {<<>>, <<"e">>}, c \in {<<"a">>, <<"b">>}}

(* callOpenAIAPI without its try/catch *)
callOpenAIAPI_NoCatch(o) ==
    IF o.kind = "json" THEN NoThrow(o.value) ELSE Throw

(* try { ... return JSON.parse(content) } catch { return {error: [], correctedSentence: ''} } *)
callOpenAIAPI(o) ==
    IF o.kind = "json" THEN NoThrow(o.value)
    ELSE NoThrow([error |-> <<>>, correctedSentence |-> <<>>])

(* the test of the response without "correctedSentence differs" *)
CorrectionRecord_ErrorOnly(sentence, resp) ==
    IF Len(resp.error) > 0
    THEN [range |-> sentence.range, errors |-> resp.error,
          originalSentence |-> sentence.text,
          correctedSentence |-> resp.correctedSentence]
    ELSE [range |-> sentence.range, errors |-> <<>>,
          originalSentence |-> sentence.text,
          correctedSentence |-> sentence.text]

(* the test of the response without "error is non-empty" *)
CorrectionRecord_DiffOnly(sentence, resp) ==
    IF resp.correctedSentence # sentence.text
    THEN [range |-> sentence.range, errors |-> resp.error,
          originalSentence |-> sentence.text,
          correctedSentence |-> resp.correctedSentence]
    ELSE [range |-> sentence.range, errors |-> <<>>,
          originalSentence |-> sentence.text,
          correctedSentence |-> sentence.text]

(* the record a task of correctTextStream returns for a response *)
CorrectionRecord(sentence, resp) ==
    IF Len(resp.error) > 0 /\ resp.correctedSentence # sentence.text
    THEN [range |-> sentence.range, errors |-> resp.error,
          originalSentence |-> sentence.text,
          correctedSentence |-> resp.correctedSentence]
    ELSE [range |-> sentence.range, errors |-> <<>>,
          originalSentence |-> sentence.text,
          correctedSentence |-> sentence.text]

----------------------------------------------------------------------------
(* correctTextStream: an async generator.  Its body runs when the consumer
   calls next(), up to the next await or yield. *)

CurrentBatch == BatchSlice(Len(sentences), i, maxConcurrency)

(* batch.map(async task => ...): every call of the batch is dispatched, then
   the generator awaits Promise.all *)
DispatchCorrections(ss, from) ==
    /\ i' = from
    /\ pending' = pending \cup SeqRange(BatchSlice(Len(ss), from, maxConcurrency))
    /\ batchResults' = <<>>
    /\ arrival' = <<>>
    /\ yielded' = 0
    /\ pc' = "awaiting"

(* the for loop of correctTextStream(ss) entered with i = from *)
CorrectionLoop(ss, from) ==
    IF from < Len(ss)
    THEN DispatchCorrections(ss, from)
    ELSE /\ pc' = "done"
         /\ UNCHANGED <<i, pending, batchResults, arrival, yielded>>

(* yield result: the record goes to the consumer *)
Yield(order, results, m) ==
    /\ emitted' = Append(emitted, results[order[m]])
    /\ emitLog' = Append(emitLog, order[m])
    /\ yielded' = m
    /\ pc' = "yielded"

(* the consumer's first next() *)
StreamStart ==
    /\ pc = "start"
    /\ CorrectionLoop(sentences, 0)
    /\ UNCHANGED <<sentences, emitted, emitLog, response, outcome>>
    /\ UNCHANGED <<maxConcurrency, pureVars, segVars>>

(* a generator that still runs after the consumer closed it *)
Suspended_OrClosed == pc \in {"yielded", "closed"}

(* the generator is suspended at its yield, where next() resumes it *)
Suspended == pc = "yielded"

(* the consumer's next() after a yield: the next record of the batch, or the
   next batch, or the end of the loop *)
StreamResume ==
    /\ Suspended
    /\ LET order == PromiseAllOrder(CurrentBatch, batchResults, arrival)
       IN  IF yielded < Len(order)
           THEN /\ Yield(order, batchResults, yielded + 1)
                /\ UNCHANGED <<i, pending, batchResults, arrival>>
           ELSE /\ CorrectionLoop(sentences, i + maxConcurrency)
                /\ UNCHANGED <<emitted, emitLog>>
    /\ UNCHANGED <<sentences, response, outcome>>
    /\ UNCHANGED <<maxConcurrency, pureVars, segVars>>

(* the external call of task k ends with outcome o: the task finishes, and if
   it was the last of its batch Promise.all is fulfilled and the first record
   of the batch is yielded *)
ResolveCorrection(k, o) ==
    /\ k \in pending
    /\ LET r == callOpenAIAPI(o)
           results == IF r.threw THEN batchResults
                      ELSE (k :> CorrectionRecord(sentences[k + 1], r.value)) @@ batchResults
           order == PromiseAllOrder(CurrentBatch, results, Append(arrival, k))
       IN  /\ pending' = pending \ {k}
           /\ outcome' = (k :> o) @@ outcome
           /\ response' = (k :> r) @@ response
           /\ arrival' = Append(arrival, k)
           /\ IF pc = "awaiting" /\ k \in SeqRange(CurrentBatch)
              THEN IF r.threw
                   THEN /\ pc' = "failed"
                        /\ UNCHANGED <<batchResults, yielded, emitted, emitLog>>
                   ELSE /\ batchResults' = results
                        /\ IF PromiseAllFulfilled(CurrentBatch, results)
                           THEN Yield(order, results, 1)
                           ELSE UNCHANGED <<pc, yielded, emitted, emitLog>>
              ELSE UNCHANGED <<pc, batchResults, yielded, emitted, emitLog>>
    /\ UNCHANGED <<sentences, i>>
    /\ UNCHANGED <<maxConcurrency, pureVars, segVars>>

(* proofread runs the whole pipeline, on its own or under a command of the
   extension *)
WholePipeline == call.op \in {"proofread", "command"}

(* the outcomes the model draws from; a run of the whole pipeline draws from
   one failure and one correction *)
CorrectionOutcomes ==
    IF WholePipeline
    THEN {[kind |-> "noContent"],
          [kind |-> "json", value |-> [error |-> <<"e">>, correctedSentence |-> <<"b">>]]}
    ELSE CorrectionFailures \cup CorrectionResponses

ResolveAnyCorrection ==
    \E k \in pending : \E o \in CorrectionOutcomes : ResolveCorrection(k, o)

----------------------------------------------------------------------------
(* calculateRanges, splitIntoSentences and processParagraphs *)

(* the loop leaving the cursor where it was after a sentence is located *)
RECURSIVE CalculateLoop_CursorStays(_, _, _, _)
CalculateLoop_CursorStays(ss, originalText, cur, result) ==
    IF ss = <<>> THEN result
    ELSE LET m == findEndPosition(Head(ss), originalText, cur)
         IN  IF m.success
             THEN CalculateLoop_CursorStays(Tail(ss), originalText, cur,
                      Append(result, [range |-> [startsAt |-> m.startPosition,
                                                 endsAt |-> m.endPosition],
                                      text |-> Head(ss)]))
             ELSE CalculateLoop_CursorStays(Tail(ss), originalText, cur, result)

(* the loop given up at the first sentence that is not located *)
RECURSIVE CalculateLoop_StopAtFailure(_, _, _, _)
CalculateLoop_StopAtFailure(ss, originalText, cur, result) ==
    IF ss = <<>> THEN result
    ELSE LET m == findEndPosition(Head(ss), originalText, cur)
         IN  IF m.success
             THEN CalculateLoop_StopAtFailure(Tail(ss), originalText, m.endPosition,
                      Append(result, [range |-> [startsAt |-> m.startPosition,
                                                 endsAt |-> m.endPosition],
                                      text |-> Head(ss)]))
             ELSE result

(* the for loop of calculateRanges over the sentences left, with
   currentPosition = cur and the result so far *)
RECURSIVE CalculateLoop(_, _, _, _)
CalculateLoop(ss, originalText, cur, result) ==
    IF ss = <<>> THEN result
    ELSE LET m == findEndPosition(Head(ss), originalText, cur)
         IN  IF m.success
             THEN CalculateLoop(Tail(ss), originalText, m.endPosition,
                      Append(result, [range |-> [startsAt |-> m.startPosition,
                                                 endsAt |-> m.endPosition],
                                      text |-> Head(ss)]))
             ELSE CalculateLoop(Tail(ss), originalText, cur, result)

calculateRanges(ss, originalText, startLine) ==
    CalculateLoop(ss, originalText, Pos(startLine, 0), <<>>)

(* the ranges searched from the paragraph's own first line *)
ParagraphRanges_FromHeading(ss, originalText, paragraph) ==
    calculateRanges(ss, originalText, paragraph.startLine)

(* the ranges a paragraph's task computes for the sentences the service
   returned: the search starts on the line after the paragraph's first line *)
ParagraphRanges(ss, originalText, paragraph) ==
    calculateRanges(ss, originalText, paragraph.startLine + 1)

(* How the segmentation call of a paragraph can end: the request rejects, the
   content is not JSON, the message has no content ('{}' is parsed instead), or
   the content is the JSON of a {sentences} object. *)
SegmentationLists ==
    {<<>>, <<<<"a">>>>, <<<<"b">>>>, <<<<"a">>, <<"b">>>>, <<<<"#">>, <<"a">>>>}

SegmentationOutcomes ==
    IF WholePipeline
    THEN {[kind |-> "rejected"], [kind |-> "unparseable"]}
             \cup {[kind |-> "json", sentences |-> l] : l \in {<<<<"a">>>>, <<<<"b">>>>}}
    ELSE {[kind |-> "rejected"], [kind |-> "unparseable"], [kind |-> "noContent"]}
             \cup {[kind |-> "json", sentences |-> l] : l \in SegmentationLists}

(* a splitIntoSentences that catches the failure and returns no sentences *)
splitIntoSentences_Caught(o) ==
    CASE o.kind = "json" -> NoThrow(o.sentences)
      [] OTHER -> NoThrow(<<>>)

(* splitIntoSentences has no try/catch: a rejected request and a JSON.parse
   error leave it as an exception *)
splitIntoSentences(o) ==
    CASE o.kind = "json" -> NoThrow(o.sentences)
      [] o.kind = "noContent" -> NoThrow(<<>>)
      [] OTHER -> Throw

(* results.sort((a, b) => b.index - a.index) *)
RECURSIVE SortByIndex_Descending(_)
SortByIndex_Descending(rs) ==
    IF rs = <<>> THEN <<>>
    ELSE LET m == CHOOSE k \in 1..Len(rs) :
                     \A j \in 1..Len(rs) :
                         rs[k].index > rs[j].index \/ (rs[k].index = rs[j].index /\ k <= j)
         IN  <<rs[m]>> \o SortByIndex_Descending(SubSeq(rs, 1, m - 1) \o SubSeq(rs, m + 1, Len(rs)))

(* results.sort((a, b) => a.index - b.index): a stable sort by index *)
RECURSIVE SortByIndex(_)
SortByIndex(rs) ==
    IF rs = <<>> THEN <<>>
    ELSE LET m == CHOOSE k \in 1..Len(rs) :
                     \A j \in 1..Len(rs) :
                         rs[k].index < rs[j].index \/ (rs[k].index = rs[j].index /\ k <= j)
         IN  <<rs[m]>> \o SortByIndex(SubSeq(rs, 1, m - 1) \o SubSeq(rs, m + 1, Len(rs)))

(* results.flatMap(result => result.sentences) *)
RECURSIVE FlatMapSentences(_)
FlatMapSentences(rs) ==
    IF rs = <<>> THEN <<>> ELSE Head(rs).sentences \o FlatMapSentences(Tail(rs))

SegCurrentBatch == BatchSlice(Len(paragraphs), segI, maxConcurrency)

(* processParagraphs(text) is called: by the caller itself, or by proofread at
   the consumer's first next().  The paragraphs are split and the calls of the
   first batch dispatched. *)
ProcessParagraphsStart ==
    /\ \/ call.op \in {"processParagraphs", "proofread"}
       \/ call.op = "command" /\ ext.pc = "iterating"
    /\ segPc = "idle"
    /\ paragraphs' = splitIntoParagraphs(text)
    /\ segI' = 0
    /\ segPending' = SeqRange(BatchSlice(Len(paragraphs'), 0, maxConcurrency))
    /\ segPc' = "awaiting"
    /\ UNCHANGED <<text, segBatch, segResults, segArrival, segOutcome>>
    /\ UNCHANGED <<maxConcurrency, pureVars, streamVars>>

(* the segmentation call of paragraph k ends with outcome o: the task computes
   the ranges of its sentences; if it was the last of its batch the results are
   pushed and the next batch is dispatched, or after the last batch the results
   are sorted and flattened and processParagraphs returns, and proofread starts
   correctTextStream on the sentences *)
ResolveSegmentation(k, o) ==
    /\ k \in segPending
    /\ \E r \in {splitIntoSentences(o)} :
       \E results \in
           {IF r.threw THEN segBatch
            ELSE (k :> [sentences |-> ParagraphRanges(r.value, text,
                                                          paragraphs[k + 1]),
                        index |-> k]) @@ segBatch} :
       LET active == segPc = "awaiting" /\ k \in SeqRange(SegCurrentBatch)
           fulfilled == active /\ ~r.threw /\ PromiseAllFulfilled(SegCurrentBatch, results)
           order == PromiseAllOrder(SegCurrentBatch, results, Append(segArrival, k))
           all == segResults \o [m \in 1..Len(order) |-> results[order[m]]]
           next == segI + maxConcurrency
           more == fulfilled /\ next < Len(paragraphs)
           returns == fulfilled /\ ~more
           flat == FlatMapSentences(SortByIndex(all))
       IN  /\ segOutcome' = (k :> o) @@ segOutcome
           /\ segPending' = (segPending \ {k}) \cup
                  (IF more THEN SeqRange(BatchSlice(Len(paragraphs), next, maxConcurrency))
                   ELSE {})
           /\ segArrival' = IF more THEN <<>> ELSE Append(segArrival, k)
           /\ segBatch' = IF more THEN <<>> ELSE IF active THEN results ELSE segBatch
           /\ segResults' = IF fulfilled THEN all ELSE segResults
           /\ segI' = IF fulfilled THEN next ELSE segI
           /\ segPc' = IF active /\ r.threw THEN "failed"
                       ELSE IF returns THEN "returned" ELSE segPc
           /\ IF returns /\ WholePipeline
              THEN /\ sentences' = flat
                   /\ CorrectionLoop(flat, 0)
                   /\ UNCHANGED <<ret, emitted, emitLog, response, outcome>>
              ELSE /\ ret' = IF returns THEN <<flat>> ELSE ret
                   /\ UNCHANGED streamVars
    /\ UNCHANGED <<text, paragraphs, call, ext, maxConcurrency>>

ResolveAnySegmentation ==
    \E k \in segPending : \E o \in SegmentationOutcomes : ResolveSegmentation(k, o)

----------------------------------------------------------------------------
(* Positions of the characters of a text *)

(* the line of the character at 1-based offset k: the newlines before it *)
LineOf(t, k) == Cardinality({j \in 1..(k - 1) : t[j] = "\n"})

(* its column: the characters since the last newline before it *)
ColOf(t, k) ==
    LET nl == {j \in 1..(k - 1) : t[j] = "\n"}
    IN  IF nl = {} THEN k - 1 ELSE k - 1 - (CHOOSE j \in nl : \A m \in nl : m <= j)

PosOf(t, k) == Pos(LineOf(t, k), ColOf(t, k))

PosLE(p, q) ==
    \/ p.lineIndex < q.lineIndex
    \/ p.lineIndex = q.lineIndex /\ p.columnIndex <= q.columnIndex

PosLT(p, q) == PosLE(p, q) /\ p # q

(* the offsets of the non-whitespace characters of t at or after position p *)
NonWhitespaceFrom(t, p) ==
    LET Keep(k) == ~IsWhitespace(t[k]) /\ PosLE(p, PosOf(t, k))
    IN  SelectSeq([k \in 1..Len(t) |-> k], Keep)

(* s without whitespace is a run of consecutive non-whitespace characters of t
   at or after p *)
OccursFrom(s, t, p) ==
    LET clean == RemoveWhitespace(s)
        f == NonWhitespaceFrom(t, p)
    IN  \E j \in 1..(Len(f) - Len(clean) + 1) :
            \A m \in 1..Len(clean) : t[f[j + m - 1]] = clean[m]

(* the characters of t from position from up to, not including, position to *)
RangeContent(t, from, to) ==
    LET In(k) == PosLE(from, PosOf(t, k)) /\ PosLT(PosOf(t, k), to)
        ks == SelectSeq([k \in 1..Len(t) |-> k], In)
    IN  [m \in 1..Len(ks) |-> t[ks[m]]]

(* the positions a search can start from: a column of a line, or the line after
   the last one *)
StartPositions(t) ==
    LET lines == SplitLines(t)
    IN  {p \in [lineIndex : 0..Len(lines), columnIndex : 0..MaxTextLen] :
            IF p.lineIndex = Len(lines) THEN p.columnIndex = 0
            ELSE p.columnIndex <= Len(lines[p.lineIndex + 1])}

----------------------------------------------------------------------------
(* Values of the variables a specification does not use *)

IdleExt == ext = [pc |-> "idle"]

IdleSeg ==
    /\ text = <<>>
    /\ segPc = "idle"
    /\ paragraphs = <<>>
    /\ segI = 0
    /\ segPending = {}
    /\ segBatch = <<>>
    /\ segResults = <<>>
    /\ segArrival = <<>>
    /\ segOutcome = <<>>

IdleStream ==
    /\ sentences = <<>>
    /\ pc = "idle"
    /\ i = 0
    /\ pending = {}
    /\ batchResults = <<>>
    /\ yielded = 0
    /\ emitted = <<>>
    /\ emitLog = <<>>
    /\ response = <<>>
    /\ outcome = <<>>
    /\ arrival = <<>>

----------------------------------------------------------------------------
(* splitIntoParagraphs applied to every text of the bounded set *)

SplitChars == {"a", " ", "\n", "#"}

InitSplit ==
    /\ call \in {[op |-> "splitIntoParagraphs", text |-> t] :
                    t \in StringsUpTo(SplitChars, MaxTextLen)}
    /\ ret = <<>>
    /\ IdleExt
    /\ maxConcurrency = DefaultMaxConcurrency
    /\ IdleSeg
    /\ IdleStream

CallSplitIntoParagraphs ==
    /\ call.op = "splitIntoParagraphs"
    /\ ret = <<>>
    /\ ret' = <<splitIntoParagraphs(call.text)>>
    /\ UNCHANGED <<call, ext, maxConcurrency, segVars, streamVars>>

NextSplit == CallSplitIntoParagraphs

SpecSplit == InitSplit /\ [][NextSplit]_vars

----------------------------------------------------------------------------
(* findEndPosition applied to every sentence, text and start position of the
   bounded sets *)

FindChars == {"a", "b", " ", "\n"}

InitFind ==
    /\ \E s \in StringsUpTo(FindChars, MaxSentenceLen),
          t \in StringsUpTo(FindChars, MaxTextLen) :
       \E p \in StartPositions(t) :
           call = [op |-> "findEndPosition", sentence |-> s, originalText |-> t,
                   startPosition |-> p]
    /\ ret = <<>>
    /\ IdleExt
    /\ maxConcurrency = DefaultMaxConcurrency
    /\ IdleSeg
    /\ IdleStream

CallFindEndPosition ==
    /\ call.op = "findEndPosition"
    /\ ret = <<>>
    /\ ret' = <<findEndPosition(call.sentence, call.originalText, call.startPosition)>>
    /\ UNCHANGED <<call, ext, maxConcurrency, segVars, streamVars>>

NextFind == CallFindEndPosition

SpecFind == InitFind /\ [][NextFind]_vars

----------------------------------------------------------------------------
(* Claims about correctTextStream *)

NumSentences == Len(sentences)

(* the task indices of the batch task k belongs to *)
BatchOf(k) == {j \in 0..(NumSentences - 1) : j \div maxConcurrency = k \div maxConcurrency}

Emitted(k) == \E p \in 1..Len(emitLog) : emitLog[p] = k

(* C1: the stream emits one record per input sentence, the k-th record with the
   range and the text of the k-th sentence, whatever the order in which the
   calls completed; at the end exactly N records have been emitted. *)
C1_InputOrder ==
    /\ Len(emitted) <= NumSentences
    /\ \A p \in 1..Len(emitted) :
          /\ emitted[p].range = sentences[p].range
          /\ emitted[p].originalSentence = sentences[p].text
    /\ pc = "done" => Len(emitted) = NumSentences

C1_Witness ==
    /\ pc = "yielded"
    /\ NumSentences = 2
    /\ arrival = <<1, 0>>
    /\ Len(emitted) = 2
    /\ emitted[1].range # emitted[2].range

(* C2: the correction requests dispatched and not yet resolved never outnumber
   maxConcurrency. *)
C2_BoundedOutstanding == Cardinality(pending) <= maxConcurrency

C2_Witness ==
    /\ maxConcurrency >= 2
    /\ NumSentences > maxConcurrency
    /\ Cardinality(pending) = maxConcurrency

(* C3: a record is emitted only when no call of its batch is unresolved;
   records are emitted in input order, and every record of a batch is emitted
   before any record of a later batch. *)
C3_BatchDrain ==
    /\ \A p \in 1..Len(emitLog) :
          \A j \in BatchOf(emitLog[p]) : j \notin pending /\ j \in DOMAIN outcome
    /\ \A p, q \in 1..Len(emitLog) : p < q => emitLog[p] < emitLog[q]
    /\ \A p \in 1..Len(emitLog) :
          \A j \in 0..(NumSentences - 1) :
              j \div maxConcurrency < emitLog[p] \div maxConcurrency
                  => \E q \in 1..(p - 1) : emitLog[q] = j

C3_Witness ==
    /\ maxConcurrency = 2
    /\ NumSentences >= 3
    /\ emitLog = <<0, 1, 2>>

(* C4: for a response {error, correctedSentence}, the record reports the errors
   and the correction exactly when error is non-empty and correctedSentence
   differs from the sentence; otherwise it has no errors and echoes the
   sentence.  A record without errors always echoes the sentence. *)
C4_RecordOfResponse ==
    \A p \in 1..Len(emitted) :
        LET k == emitLog[p]
            rec == emitted[p]
        IN  /\ rec.originalSentence = sentences[k + 1].text
            /\ rec.errors = <<>> => rec.correctedSentence = rec.originalSentence
            /\ outcome[k].kind = "json" =>
                  IF /\ outcome[k].value.error # <<>>
                     /\ outcome[k].value.correctedSentence # sentences[k + 1].text
                  THEN /\ rec.errors = outcome[k].value.error
                       /\ rec.correctedSentence = outcome[k].value.correctedSentence
                  ELSE /\ rec.errors = <<>>
                       /\ rec.correctedSentence = rec.originalSentence

C4_Witness ==
    \E p \in 1..Len(emitted) :
        LET k == emitLog[p]
        IN  /\ outcome[k].kind = "json"
            /\ outcome[k].value.error # <<>>
            /\ outcome[k].value.correctedSentence = sentences[k + 1].text
            /\ emitted[p].errors = <<>>

(* C5: a failed correction call is caught inside callOpenAIAPI: the stream
   never fails, it never waits with no call outstanding, and at its end every
   sentence has its record. *)
C5_FailureDoesNotAbort ==
    /\ pc # "failed"
    /\ \A k \in DOMAIN outcome : ~response[k].threw
    /\ pc = "awaiting" => pending # {}
    /\ pc = "done" => \A k \in 0..(NumSentences - 1) : Emitted(k)

C5_Witness ==
    /\ pc = "done"
    /\ maxConcurrency = 2
    /\ NumSentences = 3
    /\ outcome[0].kind = "rejected"
    /\ outcome[1].kind = "json"
    /\ outcome[2].kind = "unparseable"
    /\ Len(emitted) = 3

(* C6 as stated: the record of a sentence whose call failed has no errors and
   the empty string as correctedSentence. *)
C6_FailedRecordIsEmpty ==
    \A p \in 1..Len(emitted) :
        outcome[emitLog[p]] \in CorrectionFailures
            => emitted[p].errors = <<>> /\ emitted[p].correctedSentence = <<>>

(* C6 amended: callOpenAIAPI returns {error: [], correctedSentence: ''} for a
   failed call, and the record emitted for that sentence has no errors and the
   original sentence as correctedSentence. *)
C6_FailedRecordEchoes ==
    \A p \in 1..Len(emitted) :
        LET k == emitLog[p]
        IN  outcome[k] \in CorrectionFailures
                => /\ response[k] = NoThrow([error |-> <<>>, correctedSentence |-> <<>>])
                   /\ emitted[p].errors = <<>>
                   /\ emitted[p].correctedSentence = sentences[k + 1].text
                   /\ emitted[p].correctedSentence # <<>>

C6_Witness ==
    \E p \in 1..Len(emitted) :
        /\ outcome[emitLog[p]].kind = "noContent"
        /\ emitted[p].correctedSentence = <<"a">>

----------------------------------------------------------------------------
(* Claims about processParagraphs and proofread *)

(* the positioned sentences of paragraph k, from what the service returned *)
SentencesOfParagraph(k) ==
    calculateRanges(splitIntoSentences(segOutcome[k]).value, text,
                    paragraphs[k + 1].startLine + 1)

(* the concatenation of the sequences f[k], f[k + 1], ... *)
RECURSIVE ConcatFrom(_, _)
ConcatFrom(f, k) ==
    IF k \notin DOMAIN f THEN <<>> ELSE f[k] \o ConcatFrom(f, k + 1)

ParagraphsFrom(k) ==
    ConcatFrom([j \in 0..(Len(paragraphs) - 1) |-> SentencesOfParagraph(j)], k)

(* a is b with some elements left out *)
RECURSIVE IsSubsequence(_, _)
IsSubsequence(a, b) ==
    IF a = <<>> THEN TRUE
    ELSE IF b = <<>> THEN FALSE
    ELSE IF Head(a) = Head(b) THEN IsSubsequence(Tail(a), Tail(b))
    ELSE IsSubsequence(a, Tail(b))

(* C7: processParagraphs returns the sentences of paragraph 0, then those of
   paragraph 1, and so on, each paragraph's sentences in the order the service
   returned them, whatever the order in which the calls completed. *)
C7_ParagraphOrder ==
    (call.op = "processParagraphs" /\ segPc = "returned")
    => \E f \in {[j \in 0..(Len(paragraphs) - 1) |-> SentencesOfParagraph(j)]} :
          /\ ret = <<ConcatFrom(f, 0)>>
          /\ \A k \in DOMAIN f :
                IsSubsequence([m \in 1..Len(f[k]) |-> f[k][m].text],
                              splitIntoSentences(segOutcome[k]).value)

C7_Witness ==
    /\ call.op = "processParagraphs"
    /\ segPc = "returned"
    /\ maxConcurrency = 2
    /\ Len(paragraphs) = 2
    /\ segArrival = <<1, 0>>
    /\ Len(SentencesOfParagraph(0)) = 2
    /\ Len(SentencesOfParagraph(1)) = 1
    /\ Len(ret[1]) = 3

(* C8: in a run of proofread no correction request exists before every
   segmentation call has resolved and the flat sentence list is built, and no
   segmentation call is outstanding together with a correction call. *)
C8_SegmentationBeforeCorrection ==
    /\ ~(segPending # {} /\ pending # {})
    /\ (pc # "idle" \/ pending # {} \/ DOMAIN outcome # {})
           => /\ segPc = "returned"
              /\ segPending = {}
              /\ DOMAIN segOutcome = 0..(Len(paragraphs) - 1)
              /\ Len(segResults) = Len(paragraphs)
              /\ sentences = ParagraphsFrom(0)

C8_Witness ==
    /\ call.op = "proofread"
    /\ Len(paragraphs) = 2
    /\ segArrival = <<1, 0>>
    /\ Cardinality(pending) = 2

----------------------------------------------------------------------------
(* C9: findEndPosition locates every sentence that, with whitespace removed, is
   a run of consecutive non-whitespace characters of the text at or after the
   start position, and the range it returns holds exactly that sentence
   (stated for sentences that keep at least one character). *)
C9_FindsEveryOccurrence ==
    (/\ call.op = "findEndPosition"
     /\ ret # <<>>
     /\ RemoveWhitespace(call.sentence) # <<>>
     /\ OccursFrom(call.sentence, call.originalText, call.startPosition))
    => /\ ret[1].success
       /\ RemoveWhitespace(RangeContent(call.originalText, ret[1].startPosition,
                                        ret[1].endPosition))
              = RemoveWhitespace(call.sentence)

----------------------------------------------------------------------------
(* C10: a text in which no line begins with '#', the empty text included, is
   split into exactly one paragraph, and that paragraph starts at line 0. *)
NoHeadingLine(t) ==
    \A k \in 1..Len(t) : t[k] = "#" => (k > 1 /\ t[k - 1] # "\n")

C10_NoHeadingOneParagraph ==
    (call.op = "splitIntoParagraphs" /\ ret # <<>> /\ NoHeadingLine(call.text))
    => (Len(ret[1]) = 1 /\ ret[1][1].startLine = 0)

C10_Witness ==
    /\ call.op = "splitIntoParagraphs"
    /\ ret # <<>>
    /\ call.text = <<>>
    /\ ret[1] = <<[text |-> <<>>, startLine |-> 0]>>

----------------------------------------------------------------------------
(* correctTextStream on every sentence list of the bounded set *)

Range(l1, c1, l2, c2) == [startsAt |-> Pos(l1, c1), endsAt |-> Pos(l2, c2)]

SentencePool ==
    {[range |-> Range(0, 0, 0, 1), text |-> <<"a">>],
     [range |-> Range(1, 0, 1, 1), text |-> <<"b">>]}

InitStream ==
    /\ call = [op |-> "correctTextStream"]
    /\ ret = <<>>
    /\ IdleExt
    /\ maxConcurrency \in 1..MaxConcurrencyBound
    /\ IdleSeg
    /\ sentences \in StringsUpTo(SentencePool, MaxSentences)
    /\ pc = "start"
    /\ i = 0
    /\ pending = {}
    /\ batchResults = <<>>
    /\ yielded = 0
    /\ emitted = <<>>
    /\ emitLog = <<>>
    /\ response = <<>>
    /\ outcome = <<>>
    /\ arrival = <<>>

NextStream ==
    \/ StreamStart
    \/ StreamResume
    \/ ResolveAnyCorrection

SpecStream == InitStream /\ [][NextStream]_vars

----------------------------------------------------------------------------
(* The documents of processParagraphs and proofread: up to a bounded number of
   sections, each a heading line with a line of text or a line of text alone *)

Sections == {<<"#", "\n", "a">>, <<"#", "\n", "b">>, <<"a">>}

RECURSIVE JoinLines(_)
JoinLines(parts) ==
    IF Len(parts) = 1 THEN parts[1] ELSE parts[1] \o <<"\n">> \o JoinLines(Tail(parts))

Documents(n) == {JoinLines(parts) : parts \in UNION {[1..k -> Sections] : k \in 1..n}}

(* processParagraphs on every document, with every maxConcurrency of the
   bounded set *)
InitSegment ==
    /\ call = [op |-> "processParagraphs"]
    /\ ret = <<>>
    /\ IdleExt
    /\ maxConcurrency \in 1..MaxConcurrencyBound
    /\ text \in Documents(MaxSections)
    /\ segPc = "idle"
    /\ paragraphs = <<>>
    /\ segI = 0
    /\ segPending = {}
    /\ segBatch = <<>>
    /\ segResults = <<>>
    /\ segArrival = <<>>
    /\ segOutcome = <<>>
    /\ IdleStream

NextSegment ==
    \/ ProcessParagraphsStart
    \/ ResolveAnySegmentation

SpecSegment == InitSegment /\ [][NextSegment]_vars

(* proofread(text, apiKey) on every document: new TextProcessor(apiKey) has the
   default maxConcurrency *)
InitProofread ==
    /\ call = [op |-> "proofread"]
    /\ ret = <<>>
    /\ IdleExt
    /\ maxConcurrency = DefaultMaxConcurrency
    /\ text \in Documents(MaxProofreadSections)
    /\ segPc = "idle"
    /\ paragraphs = <<>>
    /\ segI = 0
    /\ segPending = {}
    /\ segBatch = <<>>
    /\ segResults = <<>>
    /\ segArrival = <<>>
    /\ segOutcome = <<>>
    /\ IdleStream

NextProofread ==
    \/ ProcessParagraphsStart
    \/ ResolveAnySegmentation
    \/ ResolveAnyCorrection
    \/ StreamResume

SpecProofread == InitProofread /\ [][NextProofread]_vars

----------------------------------------------------------------------------
(* C11: splitIntoParagraphs gives every line to exactly one paragraph, in
   order: the first paragraph starts at line 0, each paragraph holds the lines
   from its startLine up to the next paragraph's startLine (the last one up to
   the end), its text is those lines trimmed, and the paragraphs' texts
   together are the document once whitespace is deleted. *)

(* lines a .. b - 1 (0-based), each followed by a newline *)
RECURSIVE LinesText(_, _, _)
LinesText(lines, a, b) ==
    IF a >= b THEN <<>> ELSE lines[a + 1] \o <<"\n">> \o LinesText(lines, a + 1, b)

RECURSIVE ConcatTexts(_)
ConcatTexts(ps) == IF ps = <<>> THEN <<>> ELSE Head(ps).text \o ConcatTexts(Tail(ps))

C11_ParagraphsPartitionLines ==
    (call.op = "splitIntoParagraphs" /\ ret # <<>>)
    => LET ps == ret[1]
           lines == SplitLines(call.text)
           EndOf(k) == IF k = Len(ps) THEN Len(lines) ELSE ps[k + 1].startLine
       IN  /\ Len(ps) >= 1
           /\ ps[1].startLine = 0
           /\ \A k \in 1..Len(ps) :
                 /\ ps[k].startLine < EndOf(k)
                 /\ ps[k].text = Trim(LinesText(lines, ps[k].startLine, EndOf(k)))
           /\ RemoveWhitespace(ConcatTexts(ps)) = RemoveWhitespace(call.text)

C11_Witness ==
    /\ call.op = "splitIntoParagraphs"
    /\ call.text = <<"a", "\n", "#", "a">>
    /\ ret = << <<[text |-> <<"a">>, startLine |-> 0],
                  [text |-> <<"#", "a">>, startLine |-> 1]>> >>

----------------------------------------------------------------------------
(* calculateRanges, and the ranges of one paragraph's task, applied to the
   sentence lists and texts of a bounded set *)

MaxRangeSentences == 2
MaxRangeLines == 2

RangeSentences == {<<"a">>, <<"b">>, <<"a", "b">>, <<"a", " ", "b">>, <<>>}
RangeLines == {<<"#", "a">>, <<"a", " ", "b">>, <<"a", "b">>, <<"b", " ", "a">>, <<>>}

(* the texts of 1 .. MaxRangeLines lines *)
RangeTexts ==
    UNION {{JoinLines(ls) : ls \in [1..n -> RangeLines]} : n \in 1..MaxRangeLines}

TitleText ==
    <<"#", " ", "T", "i", "t", "l", "e", "\n", "T", "h",
      "i", "s", " ", "i", "s", " ", "a", " ", "t", "e",
      "s", "t", ".", " ", " ", "I", "t", " ", "h", "a",
      "s", " ", "t", "w", "o", " ", "s", "e", "n", "t",
      "e", "n", "c", "e", "s", ".">>
TitleSentences ==
    <<<<"T", "h", "i", "s", " ", "i", "s", " ", "a", " ",
        "t", "e", "s", "t", ".">>,
      <<"I", "t", " ", "h", "a", "s", " ", "t", "w", "o",
        " ", "s", "e", "n", "t", "e", "n", "c", "e", "s",
        ".">>>>

InitRanges ==
    /\ \/ \E ss \in StringsUpTo(RangeSentences, MaxRangeSentences), t \in RangeTexts,
             l \in 0..MaxRangeLines :
              call = [op |-> "calculateRanges", sentences |-> ss,
                      originalText |-> t, startLine |-> l]
       \/ \E ss \in StringsUpTo(RangeSentences, MaxRangeSentences) \union {TitleSentences},
             t \in RangeTexts \union {TitleText} :
          \E k \in 0..(Len(splitIntoParagraphs(t)) - 1) :
              call = [op |-> "paragraphRanges", sentences |-> ss,
                      originalText |-> t, index |-> k]
    /\ ret = <<>>
    /\ IdleExt
    /\ maxConcurrency = DefaultMaxConcurrency
    /\ IdleSeg
    /\ IdleStream

CallCalculateRanges ==
    /\ call.op = "calculateRanges"
    /\ ret = <<>>
    /\ ret' = <<calculateRanges(call.sentences, call.originalText, call.startLine)>>
    /\ UNCHANGED <<call, ext, maxConcurrency, segVars, streamVars>>

(* the task of paragraph call.index of the text, given the service's sentences *)
CallParagraphRanges ==
    /\ call.op = "paragraphRanges"
    /\ ret = <<>>
    /\ ret' = <<ParagraphRanges(call.sentences, call.originalText,
                                splitIntoParagraphs(call.originalText)[call.index + 1])>>
    /\ UNCHANGED <<call, ext, maxConcurrency, segVars, streamVars>>

NextRanges == CallCalculateRanges \/ CallParagraphRanges

SpecRanges == InitRanges /\ [][NextRanges]_vars

----------------------------------------------------------------------------
(* Claims about calculateRanges *)

(* C12: the sentences of a paragraph are searched from line startLine + 1,
   column 0.  When the paragraph begins with a heading line and the service
   returned, in order, the sentences of the lines after it, every sentence is
   positioned and its startsAt is the position of its first character; for
   '# Title\nThis is a test.  It has two sentences.' the two sentences start
   at line 1, columns 0 and 17. *)
C12_SentencesLocatedAfterHeading ==
    (call.op = "paragraphRanges" /\ ret # <<>>)
    => LET t == call.originalText
           ss == call.sentences
           ps == splitIntoParagraphs(t)
           p == ps[call.index + 1]
           lines == SplitLines(t)
           end == IF call.index + 1 = Len(ps) THEN Len(lines)
                  ELSE ps[call.index + 2].startLine
           body == LinesText(lines, p.startLine + 1, end)
           f == NonWhitespaceFrom(t, Pos(p.startLine + 1, 0))
           Offset(j) == Len(RemoveWhitespace(ConcatFrom(SubSeq(ss, 1, j - 1), 1)))
       IN  /\ ret[1] = CalculateLoop(ss, t, Pos(p.startLine + 1, 0), <<>>)
           /\ ( /\ StartsWithHash(lines[p.startLine + 1])
                /\ \A j \in 1..Len(ss) : RemoveWhitespace(ss[j]) # <<>>
                /\ RemoveWhitespace(ConcatFrom(ss, 1)) = RemoveWhitespace(body) )
              => /\ Len(ret[1]) = Len(ss)
                 /\ \A j \in 1..Len(ss) :
                       /\ ret[1][j].text = ss[j]
                       /\ ret[1][j].range.startsAt = PosOf(t, f[Offset(j) + 1])
           /\ (t = TitleText /\ ss = TitleSentences)
              => /\ Len(ret[1]) = 2
                 /\ ret[1][1].range.startsAt = Pos(1, 0)
                 /\ ret[1][2].range.startsAt = Pos(1, 17)

C12_Witness ==
    /\ call.op = "paragraphRanges"
    /\ call.originalText = TitleText
    /\ call.sentences = TitleSentences
    /\ Len(ret) = 1
    /\ Len(ret[1]) = 2
    /\ ret[1][2].text = TitleSentences[2]
    /\ ret[1][2].range.startsAt = Pos(1, 17)

----------------------------------------------------------------------------
(* computeDiff and mergeDiff *)

(* the table as it is allocated, never filled in *)
DpTable_Zeros(text1, text2) ==
    [di \in 0..Len(text1), dj \in 0..Len(text2) |-> 0]

(* the table dp of LCS lengths of the prefixes of text1 and text2 *)
DpTable(text1, text2) ==
    LET dp[di \in 0..Len(text1), dj \in 0..Len(text2)] ==
            IF di = 0 \/ dj = 0 THEN 0
            ELSE IF text1[di] = text2[dj] THEN dp[di - 1, dj - 1] + 1
            ELSE Max(dp[di - 1, dj], dp[di, dj - 1])
    IN  dp

DiffPart(type, value) == [type |-> type, value |-> value]

(* the while loop that rebuilds the diff backwards from (i, j) = (di, dj) *)
RECURSIVE Backtrack(_, _, _, _, _, _)
Backtrack(text1, text2, dp, di, dj, diff) ==
    IF ~(di > 0 \/ dj > 0) THEN diff
    ELSE IF di > 0 /\ dj > 0 /\ text1[di] = text2[dj]
    THEN Backtrack(text1, text2, dp, di - 1, dj - 1,
                   <<DiffPart("equal", <<text1[di]>>)>> \o diff)
    ELSE IF dj > 0 /\ (di = 0 \/ dp[di, dj - 1] >= dp[di - 1, dj])
    THEN Backtrack(text1, text2, dp, di, dj - 1,
                   <<DiffPart("insert", <<text2[dj]>>)>> \o diff)
    ELSE Backtrack(text1, text2, dp, di - 1, dj,
                   <<DiffPart("delete", <<text1[di]>>)>> \o diff)

(* the loop of mergeDiff; current is <<>> for null, else the one open run *)
RECURSIVE MergeLoop(_, _, _)
MergeLoop(diff, merged, current) ==
    IF diff = <<>> THEN merged \o current
    ELSE LET part == Head(diff)
         IN  IF current = <<>> \/ current[1].type # part.type
             THEN MergeLoop(Tail(diff), merged \o current, <<part>>)
             ELSE MergeLoop(Tail(diff), merged,
                            <<DiffPart(current[1].type, current[1].value \o part.value)>>)

mergeDiff(diff) == MergeLoop(diff, <<>>, <<>>)

computeDiff(text1, text2) ==
    mergeDiff(Backtrack(text1, text2, DpTable(text1, text2),
                        Len(text1), Len(text2), <<>>))

MaxDiffLen == 3
DiffChars == {"a", "b", "c"}

InitDiff ==
    /\ \/ \E a \in StringsUpTo(DiffChars, MaxDiffLen), b \in StringsUpTo(DiffChars, MaxDiffLen) :
              call = [op |-> "computeDiff", text1 |-> a, text2 |-> b]
       \/ call = [op |-> "computeDiff", text1 |-> <<"c", "a", "t">>,
                  text2 |-> <<"c", "a", "r", "t">>]
    /\ ret = <<>>
    /\ IdleExt
    /\ maxConcurrency = DefaultMaxConcurrency
    /\ IdleSeg
    /\ IdleStream

CallComputeDiff ==
    /\ call.op = "computeDiff"
    /\ ret = <<>>
    /\ ret' = <<computeDiff(call.text1, call.text2)>>
    /\ UNCHANGED <<call, ext, maxConcurrency, segVars, streamVars>>

NextDiff == CallComputeDiff

SpecDiff == InitDiff /\ [][NextDiff]_vars

(* the values of the runs of d whose type is in types, concatenated *)
RECURSIVE RunsOf(_, _)
RunsOf(d, types) ==
    IF d = <<>> THEN <<>>
    ELSE (IF Head(d).type \in types THEN Head(d).value ELSE <<>>) \o RunsOf(Tail(d), types)

(* the elements of a at the indices of S, in order *)
SubsequenceAt(a, S) ==
    LET In(k) == k \in S
        idx == SelectSeq([k \in 1..Len(a) |-> k], In)
    IN  [m \in 1..Len(idx) |-> a[idx[m]]]

(* the length of a longest common subsequence, by enumeration *)
LcsLength(a, b) ==
    LET common == {S \in SUBSET (1..Len(a)) : IsSubsequence(SubsequenceAt(a, S), b)}
    IN  CHOOSE n \in 0..Len(a) :
            /\ \E S \in common : Cardinality(S) = n
            /\ \A S \in common : Cardinality(S) <= n

(* C13: computeDiff(a, b) is an LCS alignment in merged form: equal and delete
   runs concatenate to a, equal and insert runs to b, the equal runs have the
   length of a longest common subsequence, no run is empty, adjacent runs
   differ in type; computeDiff('cat', 'cart') = [equal 'ca', insert 'r',
   equal 't']. *)
C13_DiffIsMergedLcsAlignment ==
    (call.op = "computeDiff" /\ ret # <<>>)
    => LET d == ret[1]
       IN  /\ RunsOf(d, {"equal", "delete"}) = call.text1
           /\ RunsOf(d, {"equal", "insert"}) = call.text2
           /\ Len(RunsOf(d, {"equal"})) = LcsLength(call.text1, call.text2)
           /\ \A k \in 1..Len(d) :
                 /\ d[k].type \in {"equal", "insert", "delete"}
                 /\ d[k].value # <<>>
           /\ \A k \in 1..(Len(d) - 1) : d[k].type # d[k + 1].type
           /\ (call.text1 = <<"c", "a", "t">> /\ call.text2 = <<"c", "a", "r", "t">>)
              => d = <<DiffPart("equal", <<"c", "a">>), DiffPart("insert", <<"r">>),
                       DiffPart("equal", <<"t">>)>>

C13_Witness ==
    /\ call.op = "computeDiff"
    /\ call.text1 = <<"c", "a", "t">>
    /\ call.text2 = <<"c", "a", "r", "t">>
    /\ ret = << <<DiffPart("equal", <<"c", "a">>), DiffPart("insert", <<"r">>),
                  DiffPart("equal", <<"t">>)>> >>

----------------------------------------------------------------------------
(* The extension's two commands.  call holds the command and what the
   configuration and the window hold when it is invoked; an optional value is
   <<>> when undefined and <<v>> otherwise.  The answers 'はい' and 'いいえ' are
   written "hai" and "iie". *)

(* !!apiKey *)
checkApiKey(apiKey) == apiKey # <<>> /\ apiKey[1] # ""

(* the checks without the one of the document's language *)
checkPrerequisites_AnyLanguage(env) ==
    IF ~checkApiKey(env.apiKey) THEN [result |-> "askApiKey"]
    ELSE IF env.activeTextEditor = <<>> THEN [result |-> "null", shown |-> "noEditor"]
    ELSE [result |-> "ok", editor |-> env.activeTextEditor[1],
          apiKey |-> IF env.apiKey = <<>> THEN "" ELSE env.apiKey[1]]

(* checkPrerequisites up to its await or its return: it asks whether to set
   the API key, or shows an error and returns null, or returns {editor, apiKey} *)
checkPrerequisites(env) ==
    IF ~checkApiKey(env.apiKey) THEN [result |-> "askApiKey"]
    ELSE IF env.activeTextEditor = <<>> THEN [result |-> "null", shown |-> "noEditor"]
    ELSE IF env.activeTextEditor[1].languageId # "markdown"
    THEN [result |-> "null", shown |-> "notMarkdown"]
    ELSE [result |-> "ok", editor |-> env.activeTextEditor[1],
          apiKey |-> IF env.apiKey = <<>> THEN "" ELSE env.apiKey[1]]

(* selection.isEmpty *)
SelectionIsEmpty(editor) == editor.selectedText = <<>>

MaxCommandSections == 1

Commands == {"proofread", "proofreadSelectedRange"}
ApiKeySettings == {<<>>, <<"">>, <<"key">>}
Editors ==
    [languageId : {"markdown", "plaintext"},
     documentText : Documents(MaxCommandSections),
     selectedText : {<<>>} \union Documents(MaxCommandSections)]
Answers(buttons) == {<<>>} \union {<<b>> : b \in buttons}

InitCommand ==
    /\ \E c \in Commands, k \in ApiKeySettings,
          e \in {<<>>} \union {<<ed>> : ed \in Editors} :
           call = [op |-> "command", command |-> c, apiKey |-> k, activeTextEditor |-> e]
    /\ ret = <<>>
    /\ ext = [pc |-> "invoked", shown |-> <<>>, apiKeyAnswer |-> <<>>,
              settingsOpened |-> FALSE, confirmation |-> <<>>, prerequisites |-> <<>>,
              diagnosticsDeleted |-> FALSE, decorated |-> FALSE]
    /\ maxConcurrency = DefaultMaxConcurrency
    /\ IdleSeg
    /\ IdleStream

(* the command runs checkPrerequisites and, for the selected range, the check
   of the selection, up to the first dialog it awaits or its return *)
CommandStart ==
    /\ call.op = "command"
    /\ ext.pc = "invoked"
    /\ LET p == checkPrerequisites(call)
       IN  ext' =
             IF p.result = "askApiKey" THEN [ext EXCEPT !.pc = "apiKeyPrompt"]
             ELSE IF p.result = "null"
             THEN [ext EXCEPT !.pc = "returned", !.shown = <<p.shown>>]
             ELSE IF call.command = "proofreadSelectedRange" /\ SelectionIsEmpty(p.editor)
             THEN [ext EXCEPT !.pc = "returned", !.shown = <<"noSelection">>]
             ELSE [ext EXCEPT !.pc = "confirming", !.prerequisites = <<p>>]
    /\ UNCHANGED <<call, ret, maxConcurrency, segVars, streamVars>>

(* the user answers 'API key is not set. Would you like to set it now?' or
   dismisses it; checkPrerequisites returns null *)
AnswerApiKeyPrompt ==
    /\ ext.pc = "apiKeyPrompt"
    /\ \E result \in Answers({"Yes", "No"}) :
           ext' = [ext EXCEPT !.pc = "returned", !.apiKeyAnswer = result,
                              !.settingsOpened = (result = <<"Yes">>)]
    /\ UNCHANGED <<call, ret, maxConcurrency, segVars, streamVars>>

(* the user answers the confirmation or dismisses it.  After 'はい' the command
   reads the text and performProofread deletes the document's diagnostics,
   decorates the range and calls proofread(text, apiKey) *)
AnswerConfirmation ==
    /\ ext.pc = "confirming"
    /\ \E confirmation \in Answers({"hai", "iie"}) :
           IF confirmation # <<"hai">>
           THEN /\ ext' = [ext EXCEPT !.pc = "returned", !.confirmation = confirmation]
                /\ UNCHANGED text
           ELSE /\ ext' = [ext EXCEPT !.pc = "iterating", !.confirmation = confirmation,
                                      !.diagnosticsDeleted = TRUE, !.decorated = TRUE]
                /\ text' = IF call.command = "proofread"
                           THEN ext.prerequisites[1].editor.documentText
                           ELSE ext.prerequisites[1].editor.selectedText
    /\ UNCHANGED <<segPc, paragraphs, segI, segPending, segBatch, segResults,
                   segArrival, segOutcome>>
    /\ UNCHANGED <<call, ret, maxConcurrency, streamVars>>

(* the for await loop of performProofread ends: the stream is exhausted and the
   decorations are cleared, or proofread threw and performProofread rejects *)
PerformProofreadEnd ==
    /\ ext.pc = "iterating"
    /\ \/ pc = "done" /\ ext' = [ext EXCEPT !.pc = "returned", !.decorated = FALSE]
       \/ segPc = "failed" /\ ext' = [ext EXCEPT !.pc = "rejected"]
    /\ UNCHANGED <<call, ret, maxConcurrency, segVars, streamVars>>

NextCommand ==
    \/ CommandStart
    \/ AnswerApiKeyPrompt
    \/ AnswerConfirmation
    \/ ProcessParagraphsStart
    \/ ResolveAnySegmentation
    \/ ResolveAnyCorrection
    \/ StreamResume
    \/ PerformProofreadEnd

SpecCommand == InitCommand /\ [][NextCommand]_vars

----------------------------------------------------------------------------
(* Claims about the commands *)

(* the pipeline was started, or something of it shows: performProofread
   touched the diagnostics or the decorations, or a segmentation or correction
   call was made *)
PipelineStarted ==
    \/ ext.pc \in {"iterating", "rejected"}
    \/ ext.diagnosticsDeleted
    \/ ext.decorated
    \/ text # <<>>
    \/ segPc # "idle"
    \/ segPending # {}
    \/ DOMAIN segOutcome # {}
    \/ pc # "idle"
    \/ pending # {}
    \/ DOMAIN outcome # {}
    \/ emitted # <<>>

CommandPreconditions ==
    /\ checkApiKey(call.apiKey)
    /\ call.activeTextEditor # <<>>
    /\ call.activeTextEditor[1].languageId = "markdown"
    /\ ext.confirmation = <<"hai">>
    /\ call.command = "proofreadSelectedRange"
           => call.activeTextEditor[1].selectedText # <<>>

(* C14: the pipeline is started only if the API key setting is non-empty, an
   active editor exists, its document is markdown, the user answered the
   confirmation with yes and, for the selected-range command, the selection is
   not empty; otherwise no segmentation or correction call is made and neither
   diagnostics nor decorations are touched. *)
C14_PipelineOnlyAfterPreconditions ==
    call.op = "command" => (PipelineStarted => CommandPreconditions)

C14_Witness ==
    /\ call.op = "command"
    /\ call.command = "proofreadSelectedRange"
    /\ checkApiKey(call.apiKey)
    /\ call.activeTextEditor # <<>>
    /\ call.activeTextEditor[1].languageId = "markdown"
    /\ call.activeTextEditor[1].selectedText = <<>>
    /\ ext.pc = "returned"
    /\ ext.shown = <<"noSelection">>
    /\ ~PipelineStarted

----------------------------------------------------------------------------
(* correctTextStream with a consumer that may stop iterating *)

(* the consumer stops: it never starts the loop, or its for await loop is left
   after a record (break, or an exception in the body), which closes the
   generator with return() at the yield where it is suspended *)
ConsumerStop ==
    /\ pc \in {"start", "yielded"}
    /\ pc' = "closed"
    /\ UNCHANGED <<sentences, i, pending, batchResults, yielded, emitted, emitLog,
                   response, outcome, arrival>>
    /\ UNCHANGED <<maxConcurrency, pureVars, segVars>>

NextStreamCancel == NextStream \/ ConsumerStop

SpecStreamCancel == InitStream /\ [][NextStreamCancel]_vars

(* C15: once the consumer has stopped, no record is emitted and no correction
   request is dispatched any more; and requests are dispatched only by a
   next() of the consumer made when every record of the earlier batches has
   been emitted. *)
C15_NothingAfterStop ==
    [][ /\ pc = "closed"
            => /\ pc' = "closed"
               /\ emitted' = emitted
               /\ pending' \subseteq pending
        /\ ~(pending' \subseteq pending)
            => /\ pc \in {"start", "yielded"}
               /\ emitted' = emitted
               /\ DOMAIN outcome' = DOMAIN outcome
               /\ Len(emitted) = i'
               /\ pending' \ pending = SeqRange(BatchSlice(Len(sentences), i', maxConcurrency))
      ]_vars

(* the consumer stopped inside a batch that is not the last one *)
C15_Witness ==
    /\ pc = "closed"
    /\ emitted # <<>>
    /\ yielded < Len(CurrentBatch)
    /\ i + maxConcurrency < Len(sentences)

----------------------------------------------------------------------------
(* processParagraphs followed by correctTextStream, as proofread runs them, on
   a TextProcessor constructed with each maxConcurrency of the bounded set *)

InitBatches ==
    /\ call = [op |-> "proofread"]
    /\ ret = <<>>
    /\ IdleExt
    /\ maxConcurrency \in 1..MaxConcurrencyBound
    /\ text \in Documents(MaxSections)
    /\ segPc = "idle"
    /\ paragraphs = <<>>
    /\ segI = 0
    /\ segPending = {}
    /\ segBatch = <<>>
    /\ segResults = <<>>
    /\ segArrival = <<>>
    /\ segOutcome = <<>>
    /\ IdleStream

NextBatches ==
    \/ ProcessParagraphsStart
    \/ ResolveAnySegmentation
    \/ ResolveAnyCorrection
    \/ StreamResume

SpecBatches == InitBatches /\ [][NextBatches]_vars

(* C16: paragraphs and sentences are taken in consecutive batches of
   maxConcurrency; a call of a batch is dispatched only when every call of the
   earlier batches has resolved, so at most maxConcurrency segmentation calls
   (and correction calls) are outstanding. *)
C16_BatchAfterBatch ==
    LET segDispatched == segPending \union DOMAIN segOutcome
        dispatched == pending \union DOMAIN outcome
    IN  /\ segI % maxConcurrency = 0
        /\ i % maxConcurrency = 0
        /\ segPending \subseteq SeqRange(SegCurrentBatch)
        /\ pending \subseteq SeqRange(CurrentBatch)
        /\ Cardinality(segPending) <= maxConcurrency
        /\ Cardinality(pending) <= maxConcurrency
        /\ \A k \in segDispatched :
              /\ k < segI + maxConcurrency
              /\ k >= segI => \A j \in 0..(segI - 1) : j \in DOMAIN segOutcome
        /\ \A k \in dispatched :
              /\ k < i + maxConcurrency
              /\ k >= i => \A j \in 0..(i - 1) : j \in DOMAIN outcome

(* the second batch of segmentation calls is out after a first batch of two *)
C16_Witness ==
    /\ maxConcurrency = 2
    /\ segI = 2
    /\ segPending = {2}
    /\ DOMAIN segOutcome = {0, 1}

(* C17: the ranges calculateRanges returns for one paragraph do not overlap and
   increase in document order: each located sentence starts at or after the
   end of the one located before it. *)
C17_RangesIncrease ==
    (call.op = "calculateRanges" /\ ret # <<>>)
    => \A k \in 1..(Len(ret[1]) - 1) :
          /\ PosLE(ret[1][k].range.endsAt, ret[1][k + 1].range.startsAt)
          /\ PosLT(ret[1][k].range.startsAt, ret[1][k].range.endsAt)

C17_Witness ==
    /\ call.op = "calculateRanges"
    /\ call.sentences = <<<<"a">>, <<"a">>>>
    /\ call.originalText = <<"a", " ", "b", "\n", "b", " ", "a">>
    /\ call.startLine = 0
    /\ Len(ret) = 1
    /\ Len(ret[1]) = 2
    /\ ret[1][1].range = Range(0, 0, 0, 1)
    /\ ret[1][2].range = Range(1, 2, 1, 3)

(* the cursor after the first j sentences of ss: the end of a located sentence
   becomes the cursor, a sentence that is not located leaves it as it is *)
RECURSIVE CursorAfter(_, _, _, _)
CursorAfter(ss, t, startLine, j) ==
    IF j = 0 THEN Pos(startLine, 0)
    ELSE LET cur == CursorAfter(ss, t, startLine, j - 1)
             m == findEndPosition(ss[j], t, cur)
         IN  IF m.success THEN m.endPosition ELSE cur

(* what the search for sentence j of ss finds from the cursor left by the
   sentences before it *)
SearchOf(ss, t, startLine, j) ==
    findEndPosition(ss[j], t, CursorAfter(ss, t, startLine, j - 1))

(* C18: a sentence findEndPosition does not locate is dropped alone: the cursor
   stays where it was, the sentences after it are still searched from there,
   and the result holds exactly the located sentences, in order. *)
C18_UnlocatedSentenceSkipped ==
    (call.op = "calculateRanges" /\ ret # <<>>)
    => LET ss == call.sentences
           t == call.originalText
           l == call.startLine
           Located(j) == SearchOf(ss, t, l, j).success
           located == SelectSeq([j \in 1..Len(ss) |-> j], Located)
       IN  /\ Len(ret[1]) = Cardinality({j \in 1..Len(ss) : Located(j)})
           /\ Len(ret[1]) = Len(located)
           /\ \A k \in 1..Len(located) :
                 LET m == SearchOf(ss, t, l, located[k])
                 IN  ret[1][k] = [range |-> [startsAt |-> m.startPosition,
                                             endsAt |-> m.endPosition],
                                  text |-> ss[located[k]]]

(* the first sentence is not in the text, the second is located from the
   unchanged cursor *)
C18_Witness ==
    /\ call.op = "calculateRanges"
    /\ call.sentences = <<<<"a", "b">>, <<"b">>>>
    /\ call.originalText = <<"b", " ", "a">>
    /\ call.startLine = 0
    /\ ret = << <<[range |-> Range(0, 0, 0, 1), text |-> <<"b">>]>> >>

(* C19: when the segmentation call of a paragraph rejects or returns content
   that is not JSON, processParagraphs fails and proofread with it: no
   correction request is dispatched and no record is emitted, also for the
   paragraphs whose segmentation succeeded. *)
C19_SegmentationFailureIsFatal ==
    (\E k \in DOMAIN segOutcome : segOutcome[k].kind \in {"rejected", "unparseable"})
    => /\ segPc = "failed"
       /\ pc = "idle"
       /\ sentences = <<>>
       /\ pending = {}
       /\ DOMAIN outcome = {}
       /\ emitted = <<>>

(* the second paragraph's call fails after the first one's succeeded and
   located a sentence; every call has resolved *)
C19_Witness ==
    /\ segPc = "failed"
    /\ segPending = {}
    /\ Len(paragraphs) >= 2
    /\ DOMAIN segOutcome = 0..(Len(paragraphs) - 1)
    /\ segOutcome[0].kind = "json"
    /\ ParagraphRanges(segOutcome[0].sentences, text, paragraphs[1]) # <<>>
    /\ segOutcome[1].kind = "unparseable"

----------------------------------------------------------------------------
(* getContext, applied to every task of every sentence list of a bounded set *)

(* parts.join('\n') *)
JoinNewline(parts) == IF parts = <<>> THEN <<>> ELSE JoinLines(parts)

(* a window that ends one sentence early *)
getContext_EndsEarly(ss, currentIndex) ==
    LET contextSentences == Slice(ss, Max(0, currentIndex - 2),
                                  Min(Len(ss), currentIndex + 2))
    IN  JoinNewline([k \in 1..Len(contextSentences) |-> contextSentences[k].text])

getContext(ss, currentIndex) ==
    LET contextSentences == Slice(ss, Max(0, currentIndex - 2),
                                  Min(Len(ss), currentIndex + 3))
    IN  JoinNewline([k \in 1..Len(contextSentences) |-> contextSentences[k].text])

(* sentences.map((sentence, index) => ({ sentence, index })) *)
Tasks(ss) == [k \in 1..Len(ss) |-> [sentence |-> ss[k], index |-> k - 1]]

MaxContextSentences == 6

InitContext ==
    /\ \E ss \in StringsUpTo(SentencePool, MaxContextSentences) :
       \E k \in 0..(Len(ss) - 1) :
           call = [op |-> "getContext", sentences |-> ss, index |-> k]
    /\ ret = <<>>
    /\ IdleExt
    /\ maxConcurrency = DefaultMaxConcurrency
    /\ IdleSeg
    /\ IdleStream

(* the task of index call.index computes its context *)
CallGetContext ==
    /\ call.op = "getContext"
    /\ ret = <<>>
    /\ ret' = <<getContext(call.sentences, Tasks(call.sentences)[call.index + 1].index)>>
    /\ UNCHANGED <<call, ext, maxConcurrency, segVars, streamVars>>

NextContext == CallGetContext

SpecContext == InitContext /\ [][NextContext]_vars

(* C20: the context of sentence i of a list of N sentences is the texts, in
   order and joined by newlines, of the sentences max(0, i - 2) ..
   min(N - 1, i + 2) of the whole list: the sentence itself and at most two on
   each side. *)
C20_ContextWindow ==
    (call.op = "getContext" /\ ret # <<>>)
    => LET ss == call.sentences
           lo == IF call.index - 2 > 0 THEN call.index - 2 ELSE 0
           hi == IF call.index + 2 < Len(ss) - 1 THEN call.index + 2 ELSE Len(ss) - 1
           window == [m \in 1..(hi - lo + 1) |-> ss[lo + m].text]
       IN  /\ lo <= call.index /\ call.index <= hi
           /\ Len(window) <= 5
           /\ ret[1] = JoinLines(window)

(* a sentence with two sentences before it and more than two after it *)
C20_Witness ==
    /\ call.op = "getContext"
    /\ Len(call.sentences) = 6
    /\ call.index = 2
    /\ \A k \in 1..6 : call.sentences[k].text = (IF k = 6 THEN <<"b">> ELSE <<"a">>)
    /\ ret = << <<"a", "\n", "a", "\n", "a", "\n", "a", "\n", "a">> >>

----------------------------------------------------------------------------
(* C21: a range findEndPosition returns is sound: startsAt is at or after the
   start position and is the position of a non-whitespace character, endsAt
   is one column past the last matched character on that character's line,
   startsAt precedes endsAt, and the non-whitespace characters from startsAt
   up to endsAt are the sentence without whitespace; a sentence that is empty
   without whitespace is not found; the function returns for every input. *)
C21_RangeIsSound ==
    (call.op = "findEndPosition" /\ ret # <<>>)
    => LET r == ret[1]
           t == call.originalText
           clean == RemoveWhitespace(call.sentence)
       IN  /\ r.success \in BOOLEAN
           /\ clean = <<>> => ~r.success
           /\ r.success
               => /\ PosLE(call.startPosition, r.startPosition)
                  /\ \E k \in 1..Len(t) :
                        /\ ~IsWhitespace(t[k])
                        /\ PosOf(t, k) = r.startPosition
                        /\ t[k] = clean[1]
                  /\ \E k \in 1..Len(t) :
                        /\ ~IsWhitespace(t[k])
                        /\ t[k] = clean[Len(clean)]
                        /\ r.endPosition = Pos(LineOf(t, k), ColOf(t, k) + 1)
                  /\ PosLT(r.startPosition, r.endPosition)
                  /\ RemoveWhitespace(RangeContent(t, r.startPosition, r.endPosition))
                         = clean

(* a sentence found across a line break, after a character that is skipped *)
C21_Witness ==
    /\ call.op = "findEndPosition"
    /\ call.sentence = <<"a", "b">>
    /\ call.originalText = <<"b", "a", "\n", "b">>
    /\ call.startPosition = Pos(0, 0)
    /\ ret = <<[success |-> TRUE, startPosition |-> Pos(0, 1), endPosition |-> Pos(1, 1)]>>

----------------------------------------------------------------------------
(* C22: the flat list processParagraphs returns is ordered by document
   position, each sentence ending at or before the start of the next one, also
   across paragraphs, and every sentence of a paragraph has its range within
   that paragraph's lines, from its startLine up to the next paragraph's
   startLine. *)
C22_GloballyOrdered ==
    (call.op = "processParagraphs" /\ segPc = "returned")
    => /\ \A k \in 1..(Len(ret[1]) - 1) :
             PosLE(ret[1][k].range.endsAt, ret[1][k + 1].range.startsAt)
       /\ \A p \in 0..(Len(paragraphs) - 1) :
             \E ps \in {SentencesOfParagraph(p)} :
             \A m \in 1..Len(ps) :
                LET end == IF p + 1 = Len(paragraphs) THEN Len(SplitLines(text))
                           ELSE paragraphs[p + 2].startLine
                IN  /\ paragraphs[p + 1].startLine <= ps[m].range.startsAt.lineIndex
                    /\ ps[m].range.endsAt.lineIndex < end

----------------------------------------------------------------------------
(* C23: when a paragraph does not begin with a heading, a sentence the service
   returns from the paragraph's first line is located: the list
   processParagraphs returns has a positioned sentence with that text whose
   range lies on that first line. *)
C23_FirstLineLocated ==
    (call.op = "processParagraphs" /\ segPc = "returned")
    => \A p \in 0..(Len(paragraphs) - 1) :
          LET startLine == paragraphs[p + 1].startLine
              first == SplitLines(text)[startLine + 1]
              o == segOutcome[p]
          IN  (~StartsWithHash(first) /\ o.kind = "json")
              => \A j \in 1..Len(o.sentences) :
                    ( /\ RemoveWhitespace(o.sentences[j]) # <<>>
                      /\ OccursFrom(o.sentences[j], first, Pos(0, 0)) )
                    => \E m \in 1..Len(ret[1]) :
                          /\ ret[1][m].text = o.sentences[j]
                          /\ ret[1][m].range.startsAt.lineIndex = startLine
                          /\ ret[1][m].range.endsAt.lineIndex = startLine

=============================================================================
